---------------------------- MODULE Spec2Model ----------------------------
(***************************************************************************)
(* Model of private_gpt/components/llm/prompt_helper.py: the prompt styles *)
(* that turn a conversation (a sequence of ChatMessage) or a completion    *)
(* into one prompt string, and get_prompt_style, which selects a style by  *)
(* name.                                                                   *)
(*                                                                         *)
(* A Python str is modelled as a sequence of one-character strings, so     *)
(* that strip(), lower(), join() and f-string concatenation are computed   *)
(* character by character.  The Python object None is the value None       *)
(* below, which is no str.                                                 *)
(***************************************************************************)
EXTENDS Integers, Sequences, FiniteSets, TLC

VARIABLES pc, prompt_style, style, op, arg, outcome

vars == <<pc, prompt_style, style, op, arg, outcome>>

(***************************************************************************)
(* Bounds of the model.                                                    *)
(***************************************************************************)
\* longest conversation passed to messages_to_prompt under Spec
MaxMsgs == 3
\* longest completion passed to completion_to_prompt
MaxCompletionLen == 3
\* longest message content under SpecText
MaxLen == 2
\* longest conversation under SpecText
MaxTextMsgs == 2

(***************************************************************************)
(* Python values.                                                          *)
(***************************************************************************)
\* the object None (as a message content); a one-element sequence whose
\* element is not a character, hence different from every str
None == <<"NoneType">>

\* the empty str ""
EmptyStr == <<>>

\* characters that str.strip() removes when called without argument
Whitespace == {" ", "\n", "\t", "\r"}

\* str(None)
NoneRepr == <<"N", "o", "n", "e">>

\* str(x) for x a str or None
str(x) == IF x = None THEN NoneRepr ELSE x

\* x or "" for x a str or None: None and "" are falsy
OrEmpty(x) == IF x = None \/ x = EmptyStr THEN EmptyStr ELSE x

RECURSIVE lstrip(_)
lstrip(s) ==
    IF s # <<>> /\ Head(s) \in Whitespace THEN lstrip(Tail(s)) ELSE s

RECURSIVE rstrip(_)
rstrip(s) ==
    IF s # <<>> /\ s[Len(s)] \in Whitespace
    THEN rstrip(SubSeq(s, 1, Len(s) - 1))
    ELSE s

\* s.strip()
strip(s) == rstrip(lstrip(s))

\* the lower-case form of one character
LowerChar(c) ==
    CASE c = "A" -> "a" [] c = "C" -> "c" [] c = "E" -> "e" [] c = "F" -> "f"
      [] c = "I" -> "i" [] c = "M" -> "m" [] c = "N" -> "n" [] c = "O" -> "o"
      [] c = "R" -> "r" [] c = "S" -> "s" [] c = "T" -> "t" [] c = "U" -> "u"
      [] c = "Y" -> "y"
      [] OTHER -> c

\* s.lower()
lower(s) == [i \in 1..Len(s) |-> LowerChar(s[i])]

\* sep.join(parts)
RECURSIVE join(_, _)
join(sep, parts) ==
    IF parts = <<>> THEN EmptyStr
    ELSE IF Len(parts) = 1 THEN parts[1]
    ELSE parts[1] \o sep \o join(sep, Tail(parts))

(***************************************************************************)
(* llama_index.llms: MessageRole (a str enumeration) and ChatMessage.      *)
(***************************************************************************)
SYSTEM == "SYSTEM"
USER == "USER"
ASSISTANT == "ASSISTANT"
FUNCTION == "FUNCTION"

MessageRole == {SYSTEM, USER, ASSISTANT, FUNCTION}

\* the str value of a MessageRole member, which its str methods act on
RoleValue(role) ==
    CASE role = SYSTEM -> <<"s", "y", "s", "t", "e", "m">>
      [] role = USER -> <<"u", "s", "e", "r">>
      [] role = ASSISTANT -> <<"a", "s", "s", "i", "s", "t", "a", "n", "t">>
      [] role = FUNCTION -> <<"f", "u", "n", "c", "t", "i", "o", "n">>

ChatMessage(content, role) == [role |-> role, content |-> content]

(***************************************************************************)
(* The result of a call: a returned value, or a raised exception and no    *)
(* value.                                                                  *)
(***************************************************************************)
NoValue == <<"no value">>

Return(v) == [kind |-> "return", value |-> v, exc |-> "none"]

Raise(e) == [kind |-> "raise", value |-> NoValue, exc |-> e]

NoOutcome == [kind |-> "none", value |-> NoValue, exc |-> "none"]

(***************************************************************************)
(* DefaultPromptStyle                                                      *)
(***************************************************************************)
DefaultPromptStyle__messages_to_prompt(messages) == Return(EmptyStr)

DefaultPromptStyle__completion_to_prompt(completion) == Return(EmptyStr)

(***************************************************************************)
(* llama_index.llms.llama_utils, the library Llama2PromptStyle delegates   *)
(* to.  DEFAULT_SYSTEM_PROMPT stands for the library's default system      *)
(* prompt, a text without surrounding whitespace once stripped.            *)
(***************************************************************************)
BOS == <<"<", "s", ">">>
EOS == <<"<", "/", "s", ">">>
B_INST == <<"[", "I", "N", "S", "T", "]">>
E_INST == <<"[", "/", "I", "N", "S", "T", "]">>
B_SYS == <<"<", "<", "S", "Y", "S", ">", ">", "\n">>
E_SYS == <<"\n", "<", "<", "/", "S", "Y", "S", ">", ">", "\n", "\n">>
DEFAULT_SYSTEM_PROMPT == <<"Y", "o", "u", " ", "a", "r", "e", " ", "a", " ", "h", "e", "l", "p", "f", "u", "l", " ", "a", "s", "s", "i", "s", "t", "a", "n", "t", ".", " ">>
Space == <<" ">>

\* the loop over the (user, assistant) pairs, i the 0-based index of the pair's
\* user message, string_messages the list built so far
RECURSIVE LlamaPairs(_, _, _, _)
LlamaPairs(messages, i, system_message_str, string_messages) ==
    IF i >= Len(messages) THEN Return(join(EmptyStr, string_messages))
    ELSE
      LET user_message == messages[i + 1]
          closed ==
              IF i = 0 THEN string_messages
              ELSE [string_messages EXCEPT
                      ![Len(string_messages)] = @ \o Space \o EOS]
          start ==
              IF i = 0
              THEN BOS \o Space \o B_INST \o Space \o system_message_str \o Space
              ELSE BOS \o Space \o B_INST \o Space
          with_user == start \o str(user_message.content) \o Space \o E_INST
      IN  IF user_message.role # USER THEN Raise("AssertionError")
          ELSE IF Len(messages) > i + 1
          THEN LET assistant_message == messages[i + 2]
               IN  IF assistant_message.role # ASSISTANT
                   THEN Raise("AssertionError")
                   ELSE LlamaPairs(messages, i + 2, system_message_str,
                          Append(closed, with_user \o Space \o
                                         str(assistant_message.content)))
          ELSE LlamaPairs(messages, i + 2, system_message_str,
                          Append(closed, with_user))

\* llama_utils.messages_to_prompt(messages)
llama_utils_messages_to_prompt(messages) ==
    IF messages = <<>> THEN Raise("IndexError")
    ELSE
      LET has_system == messages[1].role = SYSTEM
          system_message_str ==
              IF has_system THEN OrEmpty(messages[1].content)
              ELSE DEFAULT_SYSTEM_PROMPT
          rest == IF has_system THEN Tail(messages) ELSE messages
      IN  LlamaPairs(rest, 0,
                     B_SYS \o Space \o strip(system_message_str) \o Space \o E_SYS,
                     <<>>)

\* llama_utils.completion_to_prompt(completion)
llama_utils_completion_to_prompt(completion) ==
    Return(BOS \o Space \o B_INST \o Space \o B_SYS \o Space
           \o strip(DEFAULT_SYSTEM_PROMPT) \o Space \o E_SYS \o Space
           \o strip(completion) \o Space \o E_INST)

(***************************************************************************)
(* Llama2PromptStyle                                                       *)
(***************************************************************************)
Llama2PromptStyle__messages_to_prompt(messages) ==
    llama_utils_messages_to_prompt(messages)

Llama2PromptStyle__completion_to_prompt(completion) ==
    llama_utils_completion_to_prompt(completion)

(***************************************************************************)
(* TagPromptStyle                                                          *)
(***************************************************************************)
TAG_OPEN == <<"<", "|">>
TAG_CLOSE == <<"|", ">", ":", " ">>
NEWLINE == <<"\n">>
TAG_ASSISTANT == <<"<", "|", "a", "s", "s", "i", "s", "t", "a", "n", "t", "|", ">", ":", " ">>

\* Faulty variant of TagLoop: each line is put before the lines built so far
RECURSIVE TagLoop_prepends(_, _, _)
TagLoop_prepends(messages, i, prompt) ==
    IF i > Len(messages) THEN prompt
    ELSE
      LET message == messages[i]
          role == RoleValue(message.role)
          content == OrEmpty(message.content)
          message_from_user ==
              (TAG_OPEN \o lower(role) \o TAG_CLOSE \o strip(content)) \o NEWLINE
      IN  TagLoop_prepends(messages, i + 1, message_from_user \o prompt)

\* the for loop of _messages_to_prompt from message i on (1-based)
RECURSIVE TagLoop(_, _, _)
TagLoop(messages, i, prompt) ==
    IF i > Len(messages) THEN prompt
    ELSE
      LET message == messages[i]
          role == RoleValue(message.role)
          content == OrEmpty(message.content)
          message_from_user ==
              (TAG_OPEN \o lower(role) \o TAG_CLOSE \o strip(content)) \o NEWLINE
      IN  TagLoop(messages, i + 1, prompt \o message_from_user)

TagPromptStyle__messages_to_prompt(messages) ==
    Return(TagLoop(messages, 1, EmptyStr) \o TAG_ASSISTANT)

TagPromptStyle__completion_to_prompt(completion) ==
    TagPromptStyle__messages_to_prompt(<<ChatMessage(completion, USER)>>)

(***************************************************************************)
(* MistralPromptStyle                                                      *)
(***************************************************************************)
INST_OPEN == <<"<", "s", ">", "[", "I", "N", "S", "T", "]", " ">>
INST_CLOSE == <<" ", "[", "/", "I", "N", "S", "T", "]">>
S_CLOSE == <<"<", "/", "s", ">">>

\* Faulty variant of MistralLoop: the contents lose their leading whitespace
\* only (lstrip for strip)
RECURSIVE MistralLoop_lstrip_only(_, _, _, _)
MistralLoop_lstrip_only(messages, i, inst_buffer, text) ==
    IF i > Len(messages)
    THEN [raised |-> FALSE, inst_buffer |-> inst_buffer, text |-> text]
    ELSE
      LET message == messages[i]
      IN  IF message.role = SYSTEM \/ message.role = USER
          THEN MistralLoop_lstrip_only(messages, i + 1,
                           Append(inst_buffer, lstrip(str(message.content))),
                           text)
          ELSE IF message.role = ASSISTANT
          THEN MistralLoop_lstrip_only(messages, i + 1, <<>>,
                           (text \o INST_OPEN \o join(NEWLINE, inst_buffer)
                                 \o INST_CLOSE)
                           \o Space \o lstrip(str(message.content)) \o S_CLOSE)
          ELSE [raised |-> TRUE, inst_buffer |-> inst_buffer, text |-> text]

\* Faulty variant of MistralLoop: a message of any other role is skipped
\* instead of raising
RECURSIVE MistralLoop_skips_other_roles(_, _, _, _)
MistralLoop_skips_other_roles(messages, i, inst_buffer, text) ==
    IF i > Len(messages)
    THEN [raised |-> FALSE, inst_buffer |-> inst_buffer, text |-> text]
    ELSE
      LET message == messages[i]
      IN  IF message.role = SYSTEM \/ message.role = USER
          THEN MistralLoop_skips_other_roles(messages, i + 1,
                           Append(inst_buffer, strip(str(message.content))),
                           text)
          ELSE IF message.role = ASSISTANT
          THEN MistralLoop_skips_other_roles(messages, i + 1, <<>>,
                           (text \o INST_OPEN \o join(NEWLINE, inst_buffer)
                                 \o INST_CLOSE)
                           \o Space \o strip(str(message.content)) \o S_CLOSE)
          ELSE MistralLoop_skips_other_roles(messages, i + 1, inst_buffer, text)

\* the for loop of _messages_to_prompt from message i on (1-based): the
\* locals when the loop ends, or raised when it is left by the raise
RECURSIVE MistralLoop(_, _, _, _)
MistralLoop(messages, i, inst_buffer, text) ==
    IF i > Len(messages)
    THEN [raised |-> FALSE, inst_buffer |-> inst_buffer, text |-> text]
    ELSE
      LET message == messages[i]
      IN  IF message.role = SYSTEM \/ message.role = USER
          THEN MistralLoop(messages, i + 1,
                           Append(inst_buffer, strip(str(message.content))),
                           text)
          ELSE IF message.role = ASSISTANT
          THEN MistralLoop(messages, i + 1, <<>>,
                           (text \o INST_OPEN \o join(NEWLINE, inst_buffer)
                                 \o INST_CLOSE)
                           \o Space \o strip(str(message.content)) \o S_CLOSE)
          ELSE [raised |-> TRUE, inst_buffer |-> inst_buffer, text |-> text]

MistralPromptStyle__messages_to_prompt(messages) ==
    LET end == MistralLoop(messages, 1, <<>>, EmptyStr)
    IN  IF end.raised THEN Raise("ValueError")
        ELSE IF Len(end.inst_buffer) > 0
        THEN Return(end.text \o INST_OPEN \o join(NEWLINE, end.inst_buffer)
                             \o INST_CLOSE)
        ELSE Return(end.text)

MistralPromptStyle__completion_to_prompt(completion) ==
    MistralPromptStyle__messages_to_prompt(<<ChatMessage(completion, USER)>>)

(***************************************************************************)
(* CodeLlamaPromptStyle                                                    *)
(***************************************************************************)
CL_BOS == <<"<", "s", ">">>
CL_SOURCE == <<"S", "o", "u", "r", "c", "e", ":", " ">>
CL_AFTER_ROLE == <<"\n", "\n", " ">>
CL_STEP == <<" ", "<", "s", "t", "e", "p", ">", " ">>
CL_CUE == <<"S", "o", "u", "r", "c", "e", ":", " ", "a", "s", "s", "i", "s", "t", "a", "n", "t", "\n", "D", "e", "s", "t", "i", "n", "a", "t", "i", "o", "n", ":", " ", "u", "s", "e", "r", "\n", "\n", " ">>

\* Faulty variant of CodeLlamaLoop: "<s>" is written before every message
RECURSIVE CodeLlamaLoop_bos_each(_, _, _)
CodeLlamaLoop_bos_each(messages, i, prompt) ==
    IF i > Len(messages) THEN prompt
    ELSE
      LET message == messages[i]
          role == lower(RoleValue(message.role))
          content == OrEmpty(message.content)
      IN  CodeLlamaLoop_bos_each(messages, i + 1,
                        (IF i = 1 THEN prompt ELSE prompt \o CL_BOS)
                               \o (CL_SOURCE \o role \o CL_AFTER_ROLE)
                               \o strip(content) \o CL_STEP)

\* the for loop of _messages_to_prompt from message i on (1-based)
RECURSIVE CodeLlamaLoop(_, _, _)
CodeLlamaLoop(messages, i, prompt) ==
    IF i > Len(messages) THEN prompt
    ELSE
      LET message == messages[i]
          role == lower(RoleValue(message.role))
          content == OrEmpty(message.content)
      IN  CodeLlamaLoop(messages, i + 1,
                        prompt \o (CL_SOURCE \o role \o CL_AFTER_ROLE)
                               \o strip(content) \o CL_STEP)

CodeLlamaPromptStyle__messages_to_prompt(messages) ==
    Return(CodeLlamaLoop(messages, 1, CL_BOS) \o CL_CUE)

CodeLlamaPromptStyle__completion_to_prompt(completion) ==
    CodeLlamaPromptStyle__messages_to_prompt(<<ChatMessage(completion, USER)>>)

(***************************************************************************)
(* ChatMLPromptStyle                                                       *)
(***************************************************************************)
IM_START_SYSTEM == <<"<", "|", "i", "m", "_", "s", "t", "a", "r", "t", "|", ">", "s", "y", "s", "t", "e", "m", "\n">>
IM_END_START_USER == <<"<", "|", "i", "m", "_", "e", "n", "d", "|", ">", "\n", "<", "|", "i", "m", "_", "s", "t", "a", "r", "t", "|", ">", "u", "s", "e", "r", "\n">>
IM_END == <<"<", "|", "i", "m", "_", "e", "n", "d", "|", ">", "\n">>
IM_START_ASSISTANT == <<"<", "|", "i", "m", "_", "s", "t", "a", "r", "t", "|", ">", "a", "s", "s", "i", "s", "t", "a", "n", "t", "\n">>
SYSTEM_STR == <<"s", "y", "s", "t", "e", "m">>
USER_STR == <<"u", "s", "e", "r">>

\* Faulty variant of ChatMLLoop: a message of any other role has its content
\* appended like a system message
RECURSIVE ChatMLLoop_keeps_other_roles(_, _, _)
ChatMLLoop_keeps_other_roles(messages, i, prompt) ==
    IF i > Len(messages) THEN prompt
    ELSE
      LET message == messages[i]
          role == RoleValue(message.role)
          content == OrEmpty(message.content)
      IN  IF lower(role) = USER_STR
          THEN ChatMLLoop_keeps_other_roles(messages, i + 1,
                          (prompt \o IM_END_START_USER)
                          \o (strip(content) \o IM_END))
          ELSE ChatMLLoop_keeps_other_roles(messages, i + 1,
                          prompt \o strip(content))

\* the for loop of _messages_to_prompt from message i on (1-based)
RECURSIVE ChatMLLoop(_, _, _)
ChatMLLoop(messages, i, prompt) ==
    IF i > Len(messages) THEN prompt
    ELSE
      LET message == messages[i]
          role == RoleValue(message.role)
          content == OrEmpty(message.content)
      IN  IF lower(role) = SYSTEM_STR
          THEN ChatMLLoop(messages, i + 1, prompt \o strip(content))
          ELSE IF lower(role) = USER_STR
          THEN ChatMLLoop(messages, i + 1,
                          (prompt \o IM_END_START_USER)
                          \o (strip(content) \o IM_END))
          ELSE ChatMLLoop(messages, i + 1, prompt)

ChatMLPromptStyle__messages_to_prompt(messages) ==
    Return(ChatMLLoop(messages, 1, IM_START_SYSTEM) \o IM_START_ASSISTANT)

\* Faulty variant of ChatMLPromptStyle._completion_to_prompt: the completion
\* is formatted in place, untrimmed, instead of being wrapped as a message
ChatMLPromptStyle__completion_to_prompt_inline(completion) ==
    Return(IM_START_SYSTEM \o IM_END_START_USER \o completion \o IM_END
           \o IM_START_ASSISTANT)

ChatMLPromptStyle__completion_to_prompt(completion) ==
    ChatMLPromptStyle__messages_to_prompt(<<ChatMessage(completion, USER)>>)

(***************************************************************************)
(* AbstractPromptStyle: construction and the two public operations.  An    *)
(* instance is its class and its two public attributes: "method" is the    *)
(* method inherited from AbstractPromptStyle, "None" is the object None    *)
(* that DefaultPromptStyle.__init__ assigns over it.                       *)
(***************************************************************************)
NoneCls == "None"

NoInstance ==
    [cls |-> NoneCls, messages_to_prompt |-> "None",
     completion_to_prompt |-> "None"]

\* Faulty variant of New: DefaultPromptStyle keeps the inherited methods
New_keeps_methods(style_cls) ==
    [cls |-> style_cls, messages_to_prompt |-> "method",
     completion_to_prompt |-> "method"]

\* style_cls(): AbstractPromptStyle.__init__ only logs;
\* DefaultPromptStyle.__init__ sets both public attributes to None
New(style_cls) ==
    IF style_cls = "DefaultPromptStyle"
    THEN [cls |-> style_cls, messages_to_prompt |-> "None",
          completion_to_prompt |-> "None"]
    ELSE [cls |-> style_cls, messages_to_prompt |-> "method",
          completion_to_prompt |-> "method"]

\* self._messages_to_prompt(messages), dispatched on the class of self
_messages_to_prompt(self, messages) ==
    CASE self.cls = "DefaultPromptStyle" ->
           DefaultPromptStyle__messages_to_prompt(messages)
      [] self.cls = "Llama2PromptStyle" ->
           Llama2PromptStyle__messages_to_prompt(messages)
      [] self.cls = "TagPromptStyle" ->
           TagPromptStyle__messages_to_prompt(messages)
      [] self.cls = "MistralPromptStyle" ->
           MistralPromptStyle__messages_to_prompt(messages)
      [] self.cls = "CodeLlamaPromptStyle" ->
           CodeLlamaPromptStyle__messages_to_prompt(messages)
      [] self.cls = "ChatMLPromptStyle" ->
           ChatMLPromptStyle__messages_to_prompt(messages)

\* self._completion_to_prompt(completion), dispatched on the class of self
_completion_to_prompt(self, completion) ==
    CASE self.cls = "DefaultPromptStyle" ->
           DefaultPromptStyle__completion_to_prompt(completion)
      [] self.cls = "Llama2PromptStyle" ->
           Llama2PromptStyle__completion_to_prompt(completion)
      [] self.cls = "TagPromptStyle" ->
           TagPromptStyle__completion_to_prompt(completion)
      [] self.cls = "MistralPromptStyle" ->
           MistralPromptStyle__completion_to_prompt(completion)
      [] self.cls = "CodeLlamaPromptStyle" ->
           CodeLlamaPromptStyle__completion_to_prompt(completion)
      [] self.cls = "ChatMLPromptStyle" ->
           ChatMLPromptStyle__completion_to_prompt(completion)

\* self.messages_to_prompt(messages): calling the attribute.  Calling None
\* raises TypeError; the inherited method returns what _messages_to_prompt
\* returns (the logger.debug call changes nothing)
messages_to_prompt(self, messages) ==
    IF self.messages_to_prompt = "None" THEN Raise("TypeError")
    ELSE _messages_to_prompt(self, messages)

\* self.completion_to_prompt(completion): calling the attribute
completion_to_prompt(self, completion) ==
    IF self.completion_to_prompt = "None" THEN Raise("TypeError")
    ELSE _completion_to_prompt(self, completion)

(***************************************************************************)
(* The registry.  PyNone is the key None; every other key is a str.        *)
(***************************************************************************)
PyNone == "<None>"

PROMPT_STYLE_CLS_MAP ==
    [k \in {PyNone, "default", "chatml", "codellama", "llama2", "mistral", "tag"}
       |-> CASE k = PyNone -> "DefaultPromptStyle"
             [] k = "default" -> "DefaultPromptStyle"
             [] k = "chatml" -> "ChatMLPromptStyle"
             [] k = "codellama" -> "CodeLlamaPromptStyle"
             [] k = "llama2" -> "Llama2PromptStyle"
             [] k = "mistral" -> "MistralPromptStyle"
             [] k = "tag" -> "TagPromptStyle"]

\* d.get(key): the value under key, None when key is no key of d
DictGet(d, key) == IF key \in DOMAIN d THEN d[key] ELSE NoneCls

\* Faulty variant of get_prompt_style: an unknown name falls back to the
\* Default variant
get_prompt_style_falls_back(name) ==
    LET style_cls == IF name \in DOMAIN PROMPT_STYLE_CLS_MAP
                     THEN PROMPT_STYLE_CLS_MAP[name]
                     ELSE "DefaultPromptStyle"
    IN  Return(New(style_cls))

get_prompt_style(name) ==
    LET style_cls == DictGet(PROMPT_STYLE_CLS_MAP, name)
    IN  IF style_cls # NoneCls THEN Return(New(style_cls))
        ELSE Raise("ValueError")

(***************************************************************************)
(* Inputs.                                                                 *)
(***************************************************************************)
\* the sequences over S of length at most n
SeqUpTo(S, n) == UNION {[1..k -> S] : k \in 0..n}

\* the names a caller may pass to get_prompt_style: the seven keys, the
\* empty string, case variants, a name of no style, the str "None"
StyleNames ==
    {PyNone, "default", "chatml", "codellama", "llama2", "mistral", "tag",
     "", "Mistral", "DEFAULT", "Tag", "vicuna", "None"}

Alphabet == {" ", "a"}

\* message contents under Spec: absent, empty, with leading and with trailing
\* whitespace
SampleContents == {None, EmptyStr, <<" ", "a">>, <<"b", " ">>}

Conversations ==
    SeqUpTo({ChatMessage(c, r) : c \in SampleContents, r \in MessageRole},
            MaxMsgs)

Completions == SeqUpTo(Alphabet, MaxCompletionLen)

\* message contents under SpecText: absent, or any text of at most MaxLen
\* characters
TextContents == {None} \cup SeqUpTo(Alphabet, MaxLen)

TextConversations ==
    SeqUpTo({ChatMessage(c, r) : c \in TextContents, r \in MessageRole},
            MaxTextMsgs)

(***************************************************************************)
(* The state machine: a caller resolves a style by name, then calls one of *)
(* the two public operations of the strategy it got.                       *)
(***************************************************************************)
Unset == "<unset>"

Init ==
    /\ pc = "start"
    /\ prompt_style = Unset
    /\ style = NoInstance
    /\ op = "none"
    /\ arg = <<>>
    /\ outcome = NoOutcome

\* get_prompt_style(name), for a name among names
GetPromptStyle(names) ==
    /\ pc = "start"
    /\ \E name \in names :
         /\ LET r == get_prompt_style(name)
            IN  /\ outcome' = r
                /\ style' = IF r.kind = "return" THEN r.value ELSE NoInstance
                /\ pc' = IF r.kind = "return" THEN "resolved" ELSE "unknown"
         /\ prompt_style' = name
    /\ op' = "get_prompt_style"
    /\ arg' = <<>>

\* style.messages_to_prompt(messages), for a conversation among inputs
MessagesToPrompt(inputs) ==
    /\ pc = "resolved"
    /\ \E messages \in inputs :
         /\ outcome' = messages_to_prompt(style, messages)
         /\ arg' = messages
    /\ op' = "messages_to_prompt"
    /\ pc' = "called"
    /\ UNCHANGED <<prompt_style, style>>

\* style.completion_to_prompt(completion), for a text among inputs
CompletionToPrompt(inputs) ==
    /\ pc = "resolved"
    /\ \E completion \in inputs :
         /\ outcome' = completion_to_prompt(style, completion)
         /\ arg' = completion
    /\ op' = "completion_to_prompt"
    /\ pc' = "called"
    /\ UNCHANGED <<prompt_style, style>>

Next ==
    \/ GetPromptStyle(StyleNames)
    \/ MessagesToPrompt(Conversations)
    \/ CompletionToPrompt(Completions)

Spec == Init /\ [][Next]_vars

NextText ==
    \/ GetPromptStyle(StyleNames)
    \/ MessagesToPrompt(TextConversations)
    \/ CompletionToPrompt(Completions)

SpecText == Init /\ [][NextText]_vars

(***************************************************************************)
(* Properties.  Each is stated over the last call the state records: op is *)
(* the operation, arg its input, outcome its result, style the strategy    *)
(* it was called on and prompt_style the name the strategy was resolved    *)
(* from.  The expected strings are written independently of the            *)
(* definitions above.                                                      *)
(***************************************************************************)
CalledMessages == pc = "called" /\ op = "messages_to_prompt"

CalledCompletion == pc = "called" /\ op = "completion_to_prompt"

\* the variants whose own code formats the message contents
FormattingStyles ==
    {"TagPromptStyle", "MistralPromptStyle", "CodeLlamaPromptStyle",
     "ChatMLPromptStyle"}

NonDefaultStyles == FormattingStyles \cup {"Llama2PromptStyle"}

\* s without its leading and trailing whitespace: the part of s from its
\* first to its last character that is no whitespace
Trimmed(s) ==
    LET keep == {i \in 1..Len(s) : s[i] \notin Whitespace}
    IN  IF keep = {} THEN <<>>
        ELSE SubSeq(s, CHOOSE i \in keep : \A j \in keep : i <= j,
                       CHOOSE i \in keep : \A j \in keep : j <= i)

\* a message's trimmed content, an absent content counting as the empty string
TrimmedContent(m) == IF m.content = None THEN <<>> ELSE Trimmed(m.content)

\* the concatenation of a sequence of strings
RECURSIVE Concat(_)
Concat(ss) == IF ss = <<>> THEN <<>> ELSE Head(ss) \o Concat(Tail(ss))

\* a role's name in lower case
RoleName(role) ==
    CASE role = SYSTEM -> <<"s", "y", "s", "t", "e", "m">>
      [] role = USER -> <<"u", "s", "e", "r">>
      [] role = ASSISTANT -> <<"a", "s", "s", "i", "s", "t", "a", "n", "t">>
      [] role = FUNCTION -> <<"f", "u", "n", "c", "t", "i", "o", "n">>

\* the conversation with every content replaced by its trimmed form
TrimmedConversation(messages) ==
    [i \in 1..Len(messages) |->
       ChatMessage(IF messages[i].content = None THEN None
                   ELSE Trimmed(messages[i].content),
                   messages[i].role)]

\* the conversation with every absent content replaced by ""
AbsentAsEmpty(messages) ==
    [i \in 1..Len(messages) |->
       ChatMessage(IF messages[i].content = None THEN <<>>
                   ELSE messages[i].content,
                   messages[i].role)]

HasSurroundingWhitespace(s) == s # <<>> /\ s # None /\ Trimmed(s) # s

----------------------------------------------------------------------------
KnownStyleNames ==
    {PyNone, "default", "chatml", "codellama", "llama2", "mistral", "tag"}

VariantOf(name) ==
    CASE name = PyNone -> "DefaultPromptStyle"
      [] name = "default" -> "DefaultPromptStyle"
      [] name = "chatml" -> "ChatMLPromptStyle"
      [] name = "codellama" -> "CodeLlamaPromptStyle"
      [] name = "llama2" -> "Llama2PromptStyle"
      [] name = "mistral" -> "MistralPromptStyle"
      [] name = "tag" -> "TagPromptStyle"

\* C1: get_prompt_style returns, without raising, the strategy of the named
\* variant for each known style name, None and "default" both giving the
\* Default variant; for every other string (the empty string, case variants)
\* it raises the unknown-style error (ValueError) and yields no strategy, in
\* particular not the Default one.
C1_ResolveKnownOrRaise ==
    pc # "start" =>
      IF prompt_style \in KnownStyleNames
      THEN /\ pc \in {"resolved", "called"}
           /\ style.cls = VariantOf(prompt_style)
           /\ op = "get_prompt_style" =>
                outcome.kind = "return" /\ outcome.value = style
      ELSE /\ pc = "unknown"
           /\ style = NoInstance
           /\ outcome = Raise("ValueError")

C1_Witness ==
    /\ prompt_style = "Mistral"
    /\ op = "get_prompt_style"
    /\ outcome.kind = "raise"

----------------------------------------------------------------------------
\* C2 as stated: on a Default strategy obtained from the registry, both
\* public operations return the empty string for any input and neither fails.
C2_DefaultReturnsEmpty ==
    (pc = "called" /\ style.cls = "DefaultPromptStyle") =>
      outcome = Return(EmptyStr)

\* C2 amended: on a Default strategy obtained from the registry both public
\* attributes are None, so calling either fails with TypeError and gives no
\* string; it is the internal operations _messages_to_prompt and
\* _completion_to_prompt that return the empty string for the same input.
C2_DefaultOperationsAreNone ==
    style.cls = "DefaultPromptStyle" =>
      /\ style.messages_to_prompt = "None"
      /\ style.completion_to_prompt = "None"
      /\ pc = "called" => outcome = Raise("TypeError")
      /\ CalledMessages => _messages_to_prompt(style, arg) = Return(EmptyStr)
      /\ CalledCompletion =>
           _completion_to_prompt(style, arg) = Return(EmptyStr)

C2_Witness ==
    /\ CalledMessages
    /\ style.cls = "DefaultPromptStyle"
    /\ Len(arg) >= 1
    /\ outcome.kind = "raise"

----------------------------------------------------------------------------
\* C3 as stated: for every non-Default variant (Llama2 included) and every
\* text t, completion_to_prompt(t) is messages_to_prompt([USER: t]).
C3_CompletionIsOneUserMessage ==
    (CalledCompletion /\ style.cls \in NonDefaultStyles) =>
      outcome = messages_to_prompt(style, <<ChatMessage(arg, USER)>>)

\* C3 amended: for Tag, Mistral, CodeLlama and ChatML and every text t,
\* completion_to_prompt(t) is messages_to_prompt([USER: t]); for Llama2,
\* which hands the completion to llama_utils.completion_to_prompt instead of
\* wrapping it, the two agree for every t without leading or trailing
\* whitespace.
C3_CompletionIsOneUserMessageFormatting ==
    CalledCompletion =>
      /\ style.cls \in FormattingStyles =>
           /\ outcome = messages_to_prompt(style, <<ChatMessage(arg, USER)>>)
           /\ outcome.kind = "return"
      /\ (style.cls = "Llama2PromptStyle" /\ Trimmed(arg) = arg) =>
           outcome = messages_to_prompt(style, <<ChatMessage(arg, USER)>>)

C3_Witness ==
    /\ CalledCompletion
    /\ style.cls = "ChatMLPromptStyle"
    /\ Len(arg) = 3
    /\ HasSurroundingWhitespace(arg)
    /\ outcome.kind = "return"

----------------------------------------------------------------------------
\* C4 as stated: for every non-Default variant (Llama2 included) and every
\* conversation, messages_to_prompt gives the same result on the conversation
\* and on the conversation with every content trimmed.
C4_TrimmedSameResult ==
    (CalledMessages /\ style.cls \in NonDefaultStyles) =>
      outcome = messages_to_prompt(style, TrimmedConversation(arg))

\* C4 amended: for Tag, Mistral, CodeLlama and ChatML and every conversation,
\* messages_to_prompt gives the same result on the conversation and on the
\* conversation with every content trimmed (Llama2 hands the conversation to
\* llama_utils.messages_to_prompt, which trims only a leading system
\* message).
C4_TrimmedSameResultFormatting ==
    (CalledMessages /\ style.cls \in FormattingStyles) =>
      outcome = messages_to_prompt(style, TrimmedConversation(arg))

C4_Witness ==
    /\ CalledMessages
    /\ style.cls = "MistralPromptStyle"
    /\ outcome.kind = "return"
    /\ Len(arg) = 2
    /\ arg[1].role = USER /\ arg[1].content = <<" ", "a">>
    /\ arg[2].role = ASSISTANT /\ arg[2].content = <<"a", " ">>

----------------------------------------------------------------------------
\* C5: in Tag, Mistral, CodeLlama and ChatML a message whose content is
\* absent is formatted as the same message with content "": replacing the
\* absent contents of a conversation by "" does not change the result of
\* messages_to_prompt.
C5_AbsentContentAsEmpty ==
    (CalledMessages /\ style.cls \in FormattingStyles) =>
      outcome = messages_to_prompt(style, AbsentAsEmpty(arg))

----------------------------------------------------------------------------
C6_Open == <<"<", "s", ">", "[", "I", "N", "S", "T", "]", " ">>
C6_Close == <<" ", "[", "/", "I", "N", "S", "T", "]">>
C6_End == <<"<", "/", "s", ">">>

\* the trimmed contents, in order, of the SYSTEM and USER messages among
\* messages[lo..hi]
C6_Instructions(messages, lo, hi) ==
    LET between == SubSeq(messages, lo, hi)
        said == SelectSeq(between, LAMBDA m : m.role \in {SYSTEM, USER})
    IN  [i \in 1..Len(said) |-> TrimmedContent(said[i])]

\* the parts joined by single newlines
RECURSIVE C6_Lines(_)
C6_Lines(parts) ==
    IF Len(parts) = 0 THEN <<>>
    ELSE IF Len(parts) = 1 THEN parts[1]
    ELSE parts[1] \o <<"\n">> \o C6_Lines(Tail(parts))

\* the segments from message i on, prev the index of the previous ASSISTANT
\* message (0 when there is none)
RECURSIVE C6_Segments(_, _, _)
C6_Segments(messages, prev, i) ==
    IF i > Len(messages)
    THEN IF C6_Instructions(messages, prev + 1, Len(messages)) # <<>>
         THEN C6_Open
              \o C6_Lines(C6_Instructions(messages, prev + 1, Len(messages)))
              \o C6_Close
         ELSE <<>>
    ELSE IF messages[i].role = ASSISTANT
    THEN C6_Open \o C6_Lines(C6_Instructions(messages, prev + 1, i - 1))
         \o C6_Close \o <<" ">> \o TrimmedContent(messages[i]) \o C6_End
         \o C6_Segments(messages, i, i + 1)
    ELSE C6_Segments(messages, prev, i + 1)

C6_Examples ==
    /\ MistralPromptStyle__messages_to_prompt(
         <<ChatMessage(<<"h", "e", "l", "l", "o">>, USER)>>)
       = Return(<<"<", "s", ">", "[", "I", "N", "S", "T", "]", " ", "h", "e", "l", "l", "o", " ", "[", "/", "I", "N", "S", "T", "]">>)
    /\ MistralPromptStyle__messages_to_prompt(
         <<ChatMessage(<<"h", "i">>, USER), ChatMessage(<<"y", "o">>, ASSISTANT)>>)
       = Return(<<"<", "s", ">", "[", "I", "N", "S", "T", "]", " ", "h", "i", " ", "[", "/", "I", "N", "S", "T", "]", " ", "y", "o", "<", "/", "s", ">">>)

\* C6: Mistral messages_to_prompt, for every conversation over the roles
\* SYSTEM, USER, ASSISTANT, returns one segment
\* "<s>[INST] " + B + " [/INST] " + A + "</s>" per ASSISTANT message, in order
\* (A its trimmed content, B the newline-join of the trimmed contents of the
\* SYSTEM/USER messages since the previous ASSISTANT message), then one
\* unterminated segment "<s>[INST] " + B + " [/INST]" iff a SYSTEM/USER
\* message follows the last ASSISTANT message; an absent content counts as
\* the empty string.
C6_MistralSegments ==
    /\ C6_Examples
    /\ (/\ CalledMessages
        /\ style.cls = "MistralPromptStyle"
        /\ \A i \in 1..Len(arg) : arg[i].role \in {SYSTEM, USER, ASSISTANT})
       => outcome = Return(C6_Segments(arg, 0, 1))

\* The same segments for the conversations in which no content is absent.
MistralSegmentsOfText ==
    /\ C6_Examples
    /\ (/\ CalledMessages
        /\ style.cls = "MistralPromptStyle"
        /\ \A i \in 1..Len(arg) :
             /\ arg[i].role \in {SYSTEM, USER, ASSISTANT}
             /\ arg[i].content # None)
       => outcome = Return(C6_Segments(arg, 0, 1))

----------------------------------------------------------------------------
C7_Open == <<"<", "|", "i", "m", "_", "s", "t", "a", "r", "t", "|", ">", "s", "y", "s", "t", "e", "m", "\n">>
C7_Cue == <<"<", "|", "i", "m", "_", "s", "t", "a", "r", "t", "|", ">", "a", "s", "s", "i", "s", "t", "a", "n", "t", "\n">>
C7_UserOpen == <<"<", "|", "i", "m", "_", "e", "n", "d", "|", ">", "\n", "<", "|", "i", "m", "_", "s", "t", "a", "r", "t", "|", ">", "u", "s", "e", "r", "\n">>
C7_UserClose == <<"<", "|", "i", "m", "_", "e", "n", "d", "|", ">", "\n">>

\* what one message contributes between the opening and the cue
C7_Part(m) ==
    IF m.role = SYSTEM THEN TrimmedContent(m)
    ELSE IF m.role = USER THEN C7_UserOpen \o TrimmedContent(m) \o C7_UserClose
    ELSE <<>>

\* C7: ChatML messages_to_prompt, for every conversation, returns
\* "<|im_start|>system\n", then in input order the trimmed content of each
\* SYSTEM message and "<|im_end|>\n<|im_start|>user\n" + trimmed content +
\* "<|im_end|>\n" for each USER message, then "<|im_start|>assistant\n";
\* messages of any other role add nothing and raise nothing, so the result is
\* that of the conversation without them; [SYSTEM:"S", USER:"U"] gives the
\* string of the example.
C7_ChatMLLayout ==
    /\ ChatMLPromptStyle__messages_to_prompt(
         <<ChatMessage(<<"S">>, SYSTEM), ChatMessage(<<"U">>, USER)>>)
       = Return(<<"<", "|", "i", "m", "_", "s", "t", "a", "r", "t", "|", ">", "s", "y", "s", "t", "e", "m", "\n", "S", "<", "|", "i", "m", "_", "e", "n", "d", "|", ">", "\n", "<", "|", "i", "m", "_", "s", "t", "a", "r", "t", "|", ">", "u", "s", "e", "r", "\n", "U", "<", "|", "i", "m", "_", "e", "n", "d", "|", ">", "\n", "<", "|", "i", "m", "_", "s", "t", "a", "r", "t", "|", ">", "a", "s", "s", "i", "s", "t", "a", "n", "t", "\n">>)
    /\ (CalledMessages /\ style.cls = "ChatMLPromptStyle") =>
         /\ outcome =
              Return(C7_Open
                     \o Concat([i \in 1..Len(arg) |-> C7_Part(arg[i])])
                     \o C7_Cue)
         /\ outcome =
              messages_to_prompt(style,
                SelectSeq(arg, LAMBDA m : m.role \in {SYSTEM, USER}))

C7_Witness ==
    /\ CalledMessages
    /\ style.cls = "ChatMLPromptStyle"
    /\ Len(arg) = 3
    /\ arg[1].role = SYSTEM /\ arg[1].content # None
    /\ arg[2].role = ASSISTANT /\ arg[2].content # None
    /\ arg[3].role = USER /\ arg[3].content # None
    /\ outcome.kind = "return"

----------------------------------------------------------------------------
C8_Cue == <<"<", "|", "a", "s", "s", "i", "s", "t", "a", "n", "t", "|", ">", ":", " ">>

C8_Line(m) ==
    <<"<", "|">> \o RoleName(m.role) \o <<"|", ">", ":", " ">> \o TrimmedContent(m) \o <<"\n">>

\* C8: Tag messages_to_prompt, for every conversation, returns in input
\* order one line "<|" + lower-case role + "|>: " + trimmed content + "\n" per
\* message, then the cue "<|assistant|>: " with no newline after it; the
\* empty conversation gives the cue alone and [SYSTEM:"S", USER:"hi "] gives
\* "<|system|>: S\n<|user|>: hi\n<|assistant|>: ".
C8_TagLayout ==
    /\ TagPromptStyle__messages_to_prompt(<<>>) = Return(C8_Cue)
    /\ TagPromptStyle__messages_to_prompt(
         <<ChatMessage(<<"S">>, SYSTEM), ChatMessage(<<"h", "i", " ">>, USER)>>)
       = Return(<<"<", "|", "s", "y", "s", "t", "e", "m", "|", ">", ":", " ", "S", "\n", "<", "|", "u", "s", "e", "r", "|", ">", ":", " ", "h", "i", "\n", "<", "|", "a", "s", "s", "i", "s", "t", "a", "n", "t", "|", ">", ":", " ">>)
    /\ (CalledMessages /\ style.cls = "TagPromptStyle") =>
         outcome =
           Return(Concat([i \in 1..Len(arg) |-> C8_Line(arg[i])]) \o C8_Cue)

C8_Witness ==
    /\ CalledMessages
    /\ style.cls = "TagPromptStyle"
    /\ Len(arg) = 3
    /\ arg[1].role = SYSTEM
    /\ arg[2].role = USER /\ HasSurroundingWhitespace(arg[2].content)
    /\ arg[3].role = ASSISTANT /\ arg[3].content # arg[2].content
    /\ outcome.kind = "return"

----------------------------------------------------------------------------
C9_Cue == <<"S", "o", "u", "r", "c", "e", ":", " ", "a", "s", "s", "i", "s", "t", "a", "n", "t", "\n", "D", "e", "s", "t", "i", "n", "a", "t", "i", "o", "n", ":", " ", "u", "s", "e", "r", "\n", "\n", " ">>

C9_Example ==
    CodeLlamaPromptStyle__messages_to_prompt(<<ChatMessage(<<"h", "i">>, USER)>>)
    = Return(<<"<", "s", ">", "S", "o", "u", "r", "c", "e", ":", " ", "u", "s", "e", "r", "\n", "\n", " ", "h", "i", " ", "<", "s", "t", "e", "p", ">", " ", "S", "o", "u", "r", "c", "e", ":", " ", "a", "s", "s", "i", "s", "t", "a", "n", "t", "\n", "D", "e", "s", "t", "i", "n", "a", "t", "i", "o", "n", ":", " ", "u", "s", "e", "r", "\n", "\n", " ">>)

\* the segment of the claim as stated, "<s>" included
C9_SegmentWithBos(m) ==
    <<"<", "s", ">", "S", "o", "u", "r", "c", "e", ":", " ">> \o RoleName(m.role) \o <<"\n", "\n", " ">> \o TrimmedContent(m)
    \o <<" ", "<", "s", "t", "e", "p", ">", " ">>

\* the segment without "<s>"
C9_Segment(m) ==
    <<"S", "o", "u", "r", "c", "e", ":", " ">> \o RoleName(m.role) \o <<"\n", "\n", " ">> \o TrimmedContent(m)
    \o <<" ", "<", "s", "t", "e", "p", ">", " ">>

\* C9 as stated: CodeLlama messages_to_prompt returns one segment
\* "<s>Source: " + lower-case role + "\n\n " + trimmed content + " <step> "
\* per message, the "<s>" repeated with each, then the cue
\* "Source: assistant\nDestination: user\n\n ".
C9_BosPerMessage ==
    /\ C9_Example
    /\ (CalledMessages /\ style.cls = "CodeLlamaPromptStyle") =>
         outcome =
           Return(Concat([i \in 1..Len(arg) |-> C9_SegmentWithBos(arg[i])])
                  \o C9_Cue)

\* C9 amended: CodeLlama messages_to_prompt returns "<s>" once, then in
\* input order one segment "Source: " + lower-case role + "\n\n " + trimmed
\* content + " <step> " per message, then the cue
\* "Source: assistant\nDestination: user\n\n "; the empty conversation gives
\* "<s>" followed by the cue, and [USER:"hi"] gives the string of the example.
C9_BosOnce ==
    /\ C9_Example
    /\ (CalledMessages /\ style.cls = "CodeLlamaPromptStyle") =>
         outcome =
           Return(<<"<", "s", ">">>
                  \o Concat([i \in 1..Len(arg) |-> C9_Segment(arg[i])])
                  \o C9_Cue)

C9_Witness ==
    /\ CalledMessages
    /\ style.cls = "CodeLlamaPromptStyle"
    /\ Len(arg) = 3
    /\ arg[1].role = SYSTEM
    /\ arg[2].role = USER /\ HasSurroundingWhitespace(arg[2].content)
    /\ arg[3].role = FUNCTION
    /\ outcome.kind = "return"

----------------------------------------------------------------------------
UnsupportedRole(messages) ==
    \E i \in 1..Len(messages) : messages[i].role \notin {SYSTEM, USER, ASSISTANT}

\* C10: Mistral messages_to_prompt raises the unsupported-role error
\* (ValueError) iff some message of the conversation, at any position, has a
\* role other than SYSTEM, USER, ASSISTANT, and then returns no string; Tag,
\* CodeLlama and ChatML raise for no role; and every call of either operation
\* on any variant either returns one string or raises and gives no value.
C10_RoleErrorsAllOrNothing ==
    /\ (CalledMessages /\ style.cls = "MistralPromptStyle") =>
         /\ UnsupportedRole(arg) <=> outcome = Raise("ValueError")
         /\ ~UnsupportedRole(arg) <=> outcome.kind = "return"
    /\ (CalledMessages /\ style.cls \in
          {"TagPromptStyle", "CodeLlamaPromptStyle", "ChatMLPromptStyle"}) =>
         outcome.kind = "return"
    /\ pc = "called" =>
         \/ outcome.kind = "return" /\ outcome.value # NoValue
                                    /\ outcome.exc = "none"
         \/ outcome.kind = "raise" /\ outcome.value = NoValue
                                   /\ outcome.exc # "none"

C10_Witness ==
    /\ CalledMessages
    /\ style.cls = "MistralPromptStyle"
    /\ Len(arg) = 3
    /\ arg[1].role = USER
    /\ arg[2].role = ASSISTANT
    /\ arg[3].role = FUNCTION
    /\ outcome = Raise("ValueError")

=============================================================================
